---- MODULE Spec2Model ----
(***************************************************************************)
(* ModuleUseCollector (src/dependency_collector.py): an ast.NodeVisitor    *)
(* that records where a target module is used in one source file.         *)
(*                                                                         *)
(* The recursive tree walk is a state machine: one action per visit_*      *)
(* method.  A visit_FunctionDef / visit_ClassDef call is split at its      *)
(* generic_visit: entering pushes a frame and an activation on `stack`,    *)
(* the nodes of the body are visited by further actions, and the return_*  *)
(* action pops the frame.  An exception raised by a handler unwinds every  *)
(* activation at once (no handler of the class has a try/finally) and ends *)
(* the walk.                                                               *)
(*                                                                         *)
(* A Python str is a sequence of tokens, a token being an identifier or    *)
(* the dot: 'foo.bar' is <<"foo", ".", "bar">> and '' is <<>>.             *)
(***************************************************************************)
EXTENDS Integers, Sequences, FiniteSets, TLC

\* ------------------------------------------------------------ bounds
MaxNodes == 4       \* nodes visited in one walk
MaxShadowNodes == 5 \* nodes visited in one walk over the shadowing statements
MaxDepth == 2       \* nested function / class bodies
MaxLevel == 3       \* leading dots of an import-from (relative level)

\* ------------------------------------------------------------ str
DOT == "."
None == <<"None">>          \* Python's None (no identifier is spelled None)
EMPTY == <<>>               \* ''

FOO == <<"foo">>
BAZ == <<"baz">>
FB == <<"fb">>
PKG == <<"pkg">>
SUB == <<"sub">>
FOO_BAR == <<"foo", DOT, "bar">>
PKG_SUB == <<"pkg", DOT, "sub">>
A_B_C == <<"a", DOT, "b", DOT, "c">>

\* bool(s) for an Optional[str]
truthy(s) == s # None /\ s # EMPTY

\* s.split('.')
RECURSIVE split(_)
split(s) ==
    IF \A i \in 1..Len(s) : s[i] # DOT
    THEN <<s>>
    ELSE LET i == CHOOSE k \in 1..Len(s) :
                      s[k] = DOT /\ \A j \in 1..(k-1) : s[j] # DOT
         IN  <<SubSeq(s, 1, i-1)>> \o split(SubSeq(s, i+1, Len(s)))

\* '.'.join(xs)
RECURSIVE join(_)
join(xs) ==
    IF xs = <<>> THEN EMPTY
    ELSE IF Len(xs) = 1 THEN xs[1]
    ELSE xs[1] \o <<DOT>> \o join(Tail(xs))

\* xs[:stop], with Python's treatment of a negative or too large stop
slice_to(xs, stop) ==
    LET n  == Len(xs)
        s1 == IF stop < 0 THEN stop + n ELSE stop
        s2 == IF s1 < 0 THEN 0 ELSE IF s1 > n THEN n ELSE s1
    IN  SubSeq(xs, 1, s2)

\* s.rpartition('.') as <<head, sep, tail>>
rpartition(s) ==
    IF \A i \in 1..Len(s) : s[i] # DOT
    THEN <<EMPTY, EMPTY, s>>
    ELSE LET i == CHOOSE k \in 1..Len(s) :
                      s[k] = DOT /\ \A j \in (k+1)..Len(s) : s[j] # DOT
         IN  <<SubSeq(s, 1, i-1), <<DOT>>, SubSeq(s, i+1, Len(s))>>

\* f'{a}.{b}'
fdot(a, b) == a \o <<DOT>> \o b

\* The Name node the parser makes of the expression `expr` (a dotted path
\* read or written as a value): an attribute chain a.b.c is
\* Attribute(Attribute(Name(id='a'))), so the Name's id is the first component.
name_id(expr) == split(expr)[1]

\* ------------------------------------------------------------ dict, ChainMap
EmptyDict == [k \in {} |-> None]
put(d, k, v) == (k :> v) @@ d

\* {} and readonlydict({}) as ChainMap maps: `ro` is the mappingproxy
function_frame_masks_params(params) ==
    [ro |-> FALSE, d |-> [k \in {params[i] : i \in DOMAIN params} |-> None]]
function_frame(params) == [ro |-> FALSE, d |-> EmptyDict]
class_frame_mutable == [ro |-> FALSE, d |-> EmptyDict]
class_frame == [ro |-> TRUE, d |-> EmptyDict]

\* ChainMap.new_child(m)
new_child(maps, m) == <<m>> \o maps
\* ChainMap.parents
parents(maps) == IF Len(maps) > 1 THEN Tail(maps) ELSE <<[ro |-> FALSE, d |-> EmptyDict]>>

\* ChainMap.get(key): the first map holding the key decides, default None
RECURSIVE chain_get(_, _)
chain_get(maps, key) ==
    IF maps = <<>> THEN None
    ELSE IF key \in DOMAIN maps[1].d THEN maps[1].d[key]
    ELSE chain_get(Tail(maps), key)

\* ChainMap.__setitem__: maps[0][key] = value; a mappingproxy raises TypeError
setitem_outermost(maps, key, value) ==
    IF maps[1].ro
    THEN [raised |-> TRUE, maps |-> maps]
    ELSE [raised |-> FALSE,
          maps |-> [maps EXCEPT ![Len(maps)].d = put(maps[Len(maps)].d, key, value)]]
setitem(maps, key, value) ==
    IF maps[1].ro
    THEN [raised |-> TRUE, maps |-> maps]
    ELSE [raised |-> FALSE, maps |-> [maps EXCEPT ![1].d = put(maps[1].d, key, value)]]

\* MutableMapping.update(other): self[key] = other[key] for each key of other;
\* every key goes to maps[0], so the first one raises or none does
update(maps, other) ==
    IF DOMAIN other = {} THEN [raised |-> FALSE, maps |-> maps]
    ELSE IF maps[1].ro THEN [raised |-> TRUE, maps |-> maps]
    ELSE [raised |-> FALSE,
          maps |-> [maps EXCEPT ![1].d =
                       [k \in DOMAIN other \cup DOMAIN maps[1].d |->
                           IF k \in DOMAIN other THEN other[k] ELSE maps[1].d[k]]]]

\* a.asname or a.name
local_name(a) == IF truthy(a.asname) THEN a.asname ELSE a.name

\* ------------------------------------------------------------ state
VARIABLES
    modulename,     \* self.modulename
    package,        \* self.package
    modulepackage,  \* self.modulepackage
    modulestem,     \* self.modulestem
    scopes,         \* self.scopes.maps, innermost first
    used_at,        \* self.used_at
    stack,          \* the visit_FunctionDef / visit_ClassDef calls in progress
    lineno,         \* the line of the next node
    error,          \* the exception that ended the walk, or "none"
    last,           \* the node visited last and what the handler saw
    prev            \* the node visited before it

vars == <<modulename, package, modulepackage, modulestem, scopes, used_at,
          stack, lineno, error, last, prev>>
ctor == <<modulename, package, modulepackage, modulestem>>

\* ------------------------------------------------------------ nodes
OS == <<"os">>
alias(name, asname) == [name |-> name, asname |-> asname]

NoNode ==
    [kind |-> "none", expr |-> None, id |-> None, ctx |-> "none",
     names |-> <<>>, params |-> <<>>, level |-> 0, module |-> None,
     source |-> None, bound |-> EmptyDict, line |-> 0,
     maps |-> <<>>,      \* self.scopes.maps when the handler was entered
     used |-> 0,         \* len(self.used_at) when the handler was entered
     left |-> <<>>]      \* the bodies the handler's return or raise left

\* a visit_FunctionDef / visit_ClassDef call in progress; what has been
\* visited in its body so far is kept beside it
Activation(kind, maps, ps) ==
    [kind |-> kind, before |-> maps, params |-> ps,
     stored_here |-> {},  \* ids stored or deleted directly in this body
     stored_in |-> {},    \* ... or in a body nested in it
     bound_in |-> {},     \* local names an import bound, in this body or nested
     masked |-> {},       \* ids whose latest write directly in this body is a store/del
     rebound |-> {}]      \* ids whose latest write directly in this body is an import

note_store(st, id) ==
    [i \in DOMAIN st |->
        IF i = 1
        THEN [st[i] EXCEPT !.stored_here = @ \cup {id},
                           !.stored_in = @ \cup {id},
                           !.masked = IF st[i].kind = "FunctionDef" THEN @ \cup {id} ELSE @,
                           !.rebound = IF st[i].kind = "FunctionDef" THEN @ \ {id} ELSE @]
        ELSE [st[i] EXCEPT !.stored_in = @ \cup {id}]]

note_import(st, keys) ==
    [i \in DOMAIN st |->
        IF i = 1
        THEN [st[i] EXCEPT !.bound_in = @ \cup keys,
                           !.masked = @ \ keys,
                           !.rebound = @ \cup keys]
        ELSE [st[i] EXCEPT !.bound_in = @ \cup keys]]

\* the statements and expressions a walk may meet
ImportNodes ==
    { <<alias(modulename, None)>>,
      <<alias(modulename, FB)>>,
      <<alias(OS, FB), alias(modulename, None)>>,
      <<alias(IF truthy(modulepackage) THEN modulepackage ELSE OS, None)>> }

ImportFromNodes ==
    { [module |-> modulename, level |-> 0,
       names |-> <<alias(BAZ, None), alias(modulestem, FB)>>],
      [module |-> modulename, level |-> 0,
       names |-> <<alias(BAZ, FB), alias(modulestem, FB)>>],
      [module |-> None, level |-> 1, names |-> <<alias(modulestem, None)>>],
      [module |-> None, level |-> 1,
       names |-> <<alias(BAZ, None), alias(modulestem, FB)>>],
      [module |-> IF truthy(modulepackage) THEN modulepackage ELSE OS, level |-> 0,
       names |-> <<alias(modulestem, None), alias(BAZ, None)>>],
      [module |-> modulestem, level |-> 1, names |-> <<alias(BAZ, FB)>>] }

LoadExprs == {modulename, FB, modulestem, BAZ}
StoreNames == {<<"Store", FB>>, <<"Store", modulestem>>, <<"Del", FB>>}
ParamLists == {<<>>, <<FB>>}

Targets == {<<FOO_BAR, EMPTY>>, <<PKG_SUB, PKG>>, <<FOO, EMPTY>>}

\* ------------------------------------------------------------ __init__
Construct(m, p) ==
    /\ modulename = m
    /\ package = p
    /\ modulepackage = rpartition(m)[1]
    /\ modulestem = rpartition(m)[3]
    /\ scopes = <<[ro |-> FALSE, d |-> EmptyDict]>>
    /\ used_at = <<>>
    /\ stack = <<>>
    /\ lineno = 1
    /\ error = "none"
    /\ last = NoNode
    /\ prev = NoNode

Init == \E t \in Targets : Construct(t[1], t[2])

\* ------------------------------------------------------------ the walk
Walking == error = "none"

Node(kind) == [NoNode EXCEPT !.kind = kind, !.line = lineno, !.maps = scopes,
                             !.used = Len(used_at)]

\* the handler returns: the walk goes on with the next node, which stands on
\* the next line (one node a line, so lineno counts the nodes visited)
Returns(node, maps, used, st) ==
    /\ scopes' = maps
    /\ used_at' = used
    /\ stack' = st
    /\ error' = "none"
    /\ lineno' = lineno + 1
    /\ prev' = last
    /\ last' = node
    /\ UNCHANGED ctor

\* the handler raises: no frame above catches, every body in progress is left
\* as it is and the exception reaches the caller of visit()
Raises(node, exc) ==
    /\ error' = exc
    /\ stack' = <<>>
    /\ lineno' = lineno + 1
    /\ prev' = last
    /\ last' = [node EXCEPT !.left = stack]
    /\ UNCHANGED <<scopes, used_at>>
    /\ UNCHANGED ctor

visit_FunctionDef(ps) ==
    /\ Walking
    /\ Len(stack) < MaxDepth
    /\ Returns([Node("FunctionDef") EXCEPT !.params = ps],
               new_child(scopes, function_frame(ps)),
               used_at,
               <<Activation("FunctionDef", scopes, ps)>> \o stack)

return_FunctionDef ==
    /\ error = "none"
    /\ stack # <<>>
    /\ stack[1].kind = "FunctionDef"
    /\ scopes' = parents(scopes)
    /\ stack' = Tail(stack)
    /\ prev' = last
    /\ last' = [Node("return") EXCEPT !.left = <<stack[1]>>]
    /\ UNCHANGED <<used_at, error, lineno>>
    /\ UNCHANGED ctor

visit_Lambda ==
    /\ Walking
    /\ Raises(Node("Lambda"), "AttributeError")

visit_ClassDef ==
    /\ Walking
    /\ Len(stack) < MaxDepth
    /\ Returns(Node("ClassDef"),
               new_child(scopes, class_frame),
               used_at,
               <<Activation("ClassDef", scopes, <<>>)>> \o stack)

return_ClassDef ==
    /\ error = "none"
    /\ stack # <<>>
    /\ stack[1].kind = "ClassDef"
    /\ scopes' = parents(scopes)
    /\ stack' = Tail(stack)
    /\ prev' = last
    /\ last' = [Node("return") EXCEPT !.left = <<stack[1]>>]
    /\ UNCHANGED <<used_at, error, lineno>>
    /\ UNCHANGED ctor

\* {a.asname or a.name: a.name for a in node.names if a.name == self.modulename}
RECURSIVE import_dict(_)
import_dict(names) ==
    IF names = <<>> THEN EmptyDict
    ELSE LET a == names[Len(names)]
             d == import_dict(SubSeq(names, 1, Len(names) - 1))
         IN  IF a.name = modulename THEN put(d, local_name(a), a.name) ELSE d

visit_Import(names) ==
    /\ Walking
    /\ LET d == import_dict(names)
           r == update(scopes, d)
           n == [Node("Import") EXCEPT !.names = names, !.bound = d]
       IN  IF r.raised
           THEN Raises(n, "TypeError")
           ELSE Returns(n, r.maps, used_at, note_import(stack, DOMAIN d))

\* lines 79-85: the absolute name of the module imported from
resolve_source_off_by_one(module, level) ==
    IF level # 0
    THEN LET pk == IF level > 1
                   THEN join(slice_to(split(package), -level))
                   ELSE package
         IN  IF truthy(module) THEN fdot(pk, module) ELSE pk
    ELSE module
resolve_source(module, level) ==
    IF level # 0
    THEN LET pk == IF level > 1
                   THEN join(slice_to(split(package), -(level - 1)))
                   ELSE package
         IN  IF truthy(module) THEN fdot(pk, module) ELSE pk
    ELSE module

\* {a.asname or a.name: f'{self.modulename}.{a.name}' for a in node.names}
RECURSIVE from_target_dict_no_attr(_)
from_target_dict_no_attr(names) ==
    IF names = <<>> THEN EmptyDict
    ELSE put(from_target_dict_no_attr(SubSeq(names, 1, Len(names) - 1)),
             local_name(names[Len(names)]), modulename)
RECURSIVE from_target_dict(_)
from_target_dict(names) ==
    IF names = <<>> THEN EmptyDict
    ELSE put(from_target_dict(SubSeq(names, 1, Len(names) - 1)),
             local_name(names[Len(names)]),
             fdot(modulename, names[Len(names)].name))

\* {a.asname or a.name: self.modulename for a in node.names
\*  if a.name == self.modulestem}
RECURSIVE from_package_dict_unfiltered(_)
from_package_dict_unfiltered(names) ==
    IF names = <<>> THEN EmptyDict
    ELSE put(from_package_dict_unfiltered(SubSeq(names, 1, Len(names) - 1)),
             local_name(names[Len(names)]), modulename)
RECURSIVE from_package_dict(_)
from_package_dict(names) ==
    IF names = <<>> THEN EmptyDict
    ELSE LET a == names[Len(names)]
             d == from_package_dict(SubSeq(names, 1, Len(names) - 1))
         IN  IF a.name = modulestem THEN put(d, local_name(a), modulename) ELSE d

\* lines 86-98: the dict handed to self.scopes.update; neither branch taken
\* updates nothing
import_from_dict(source, names) ==
    IF modulename = source THEN from_target_dict(names)
    ELSE IF truthy(modulepackage) /\ modulepackage = source THEN from_package_dict(names)
    ELSE EmptyDict

visit_ImportFrom(node) ==
    /\ Walking
    /\ LET source == resolve_source(node.module, node.level)
           d == import_from_dict(source, node.names)
           r == update(scopes, d)
           n == [Node("ImportFrom") EXCEPT !.names = node.names, !.level = node.level,
                     !.module = node.module, !.source = source, !.bound = d]
       IN  IF r.raised
           THEN Raises(n, "TypeError")
           ELSE Returns(n, r.maps, used_at, note_import(stack, DOMAIN d))

\* lines 106-114: a store or del masks the name in the current scope; the
\* TypeError of a class scope is caught and ignored
mask_name_global(maps, id) ==
    LET r == setitem_outermost(maps, id, None) IN IF r.raised THEN maps ELSE r.maps
mask_name(maps, id) ==
    LET r == setitem(maps, id, None) IN IF r.raised THEN maps ELSE r.maps

\* lines 116-119
record_use(maps, used, id, line) ==
    LET imported_name == chain_get(maps, id)
    IN  IF imported_name = None THEN used
        ELSE Append(used, <<imported_name, id, line>>)

visit_Name(expr, ctx) ==
    /\ Walking
    /\ LET id == name_id(expr)
           n == [Node("Name") EXCEPT !.expr = expr, !.id = id, !.ctx = ctx]
       IN  IF ctx # "Load"
           THEN Returns(n, mask_name(scopes, id), used_at, note_store(stack, id))
           ELSE Returns(n, scopes, record_use(scopes, used_at, id, lineno), stack)

More == lineno <= MaxNodes

Next ==
    \/ \E ps \in ParamLists : More /\ visit_FunctionDef(ps)
    \/ return_FunctionDef
    \/ More /\ visit_Lambda
    \/ More /\ visit_ClassDef
    \/ return_ClassDef
    \/ \E names \in ImportNodes : More /\ visit_Import(names)
    \/ \E node \in ImportFromNodes : More /\ visit_ImportFrom(node)
    \/ \E e \in LoadExprs : More /\ visit_Name(e, "Load")
    \/ \E w \in StoreNames : More /\ visit_Name(w[2], w[1])

Spec == Init /\ [][Next]_vars

\* ------------------------------------------------------------ shadowing only
\* the same walk over the statements that bind, mask and read one name, fb
ShadowTargets == {<<FOO_BAR, EMPTY>>, <<PKG_SUB, PKG>>}
ShadowImportNodes == { <<alias(modulename, FB)>> }
ShadowImportFromNodes ==
    { [module |-> modulename, level |-> 0, names |-> <<alias(BAZ, FB)>>] }
ShadowLoadExprs == {FB}
ShadowStoreNames == {<<"Store", FB>>, <<"Del", FB>>}

InitShadow == \E t \in ShadowTargets : Construct(t[1], t[2])

MoreShadow == lineno <= MaxShadowNodes

NextShadow ==
    \/ \E ps \in ParamLists : MoreShadow /\ visit_FunctionDef(ps)
    \/ return_FunctionDef
    \/ MoreShadow /\ visit_Lambda
    \/ MoreShadow /\ visit_ClassDef
    \/ return_ClassDef
    \/ \E names \in ShadowImportNodes : MoreShadow /\ visit_Import(names)
    \/ \E node \in ShadowImportFromNodes : MoreShadow /\ visit_ImportFrom(node)
    \/ \E e \in ShadowLoadExprs : MoreShadow /\ visit_Name(e, "Load")
    \/ \E w \in ShadowStoreNames : MoreShadow /\ visit_Name(w[2], w[1])

SpecShadow == InitShadow /\ [][NextShadow]_vars

\* ------------------------------------------------------------ import-from only
\* visit_ImportFrom over every relative level and hosting package
MaxResolves == 2    \* import-from statements of one such walk

Packages == {EMPTY, PKG, PKG_SUB, A_B_C}

ResolveNodes ==
    { [module |-> m, level |-> 0, names |-> <<alias(modulestem, None)>>] :
          m \in {SUB, PKG_SUB} }
    \cup
    { [module |-> m, level |-> l, names |-> <<alias(modulestem, None)>>] :
          m \in {None, SUB, PKG_SUB}, l \in 1..MaxLevel }

InitResolve == \E t \in Targets, p \in Packages : Construct(t[1], p)

NextResolve ==
    /\ lineno <= MaxResolves
    /\ \E node \in ResolveNodes : visit_ImportFrom(node)

SpecResolve == InitResolve /\ [][NextResolve]_vars

\* ------------------------------------------------------------ what the claims speak of
IsRead == last.kind = "Name" /\ last.ctx = "Load"
IsWrite == last.kind = "Name" /\ last.ctx # "Load"
UsedBefore == SubSeq(used_at, 1, last.used)
Appended(rec) == used_at = Append(UsedBefore, rec)
NothingAppended == used_at = UsedBefore

\* the read resolves against `maps` to origin o: one record, or none for None
ResolvesAgainst(maps) ==
    LET o == chain_get(maps, last.id)
    IN  IF o = None THEN NothingAppended ELSE Appended(<<o, last.id, last.line>>)

\* the last alias of `names` whose local name is l
LastNamed(names, l) ==
    names[CHOOSE i \in DOMAIN names :
              /\ local_name(names[i]) = l
              /\ \A j \in DOMAIN names : local_name(names[j]) = l => j <= i]

\* frame d with the bindings b written over it
Bound(d, b) ==
    [k \in DOMAIN d \cup DOMAIN b |-> IF k \in DOMAIN b THEN b[k] ELSE d[k]]

\* ------------------------------------------------------------ C7
\* s without its last dot-separated component ('' when it has only one)
StripLast(s) ==
    LET dots == {i \in 1..Len(s) : s[i] = DOT}
    IN  IF dots = {} THEN EMPTY
        ELSE SubSeq(s, 1, (CHOOSE i \in dots : \A j \in dots : j <= i) - 1)

RECURSIVE StripLastN(_, _)
StripLastN(s, n) == IF n = 0 THEN s ELSE StripLastN(StripLast(s), n - 1)

\* the number of dot-separated components of a package name ('' has none)
Components(s) ==
    IF s = EMPTY THEN 0 ELSE 1 + Cardinality({i \in 1..Len(s) : s[i] = DOT})

BasePackage(P, L) == IF L = 1 THEN P ELSE StripLastN(P, L - 1)

ExpectedSource(P, L, M) ==
    IF L = 0 THEN M
    ELSE IF M # None THEN BasePackage(P, L) \o <<DOT>> \o M
    ELSE BasePackage(P, L)

\* C7: the source an import-from resolves to is the written module verbatim at
\* level 0 and otherwise basePackage, followed by '.' and the written suffix
\* when one is written, basePackage being the hosting package less its last
\* (level - 1) components; stripping as many components as the package has, or
\* more, gives the empty basePackage and the walk goes on.
C7_RelativeImportResolution ==
    last.kind = "ImportFrom" =>
        /\ error = "none"
        /\ last.source = ExpectedSource(package, last.level, last.module)
        /\ (last.level >= 1 /\ last.level - 1 >= Components(package)) =>
               last.source = IF last.module # None
                             THEN <<DOT>> \o last.module ELSE EMPTY

\* from ...sub import x in package pkg.sub: two components stripped, '.sub'
C7_Witness ==
    /\ last.kind = "ImportFrom"
    /\ package = PKG_SUB
    /\ last.level = 3
    /\ last.module = SUB
    /\ last.source = <<DOT, "sub">>
    /\ error = "none"

\* ------------------------------------------------------------ C1
\* C1: after `import T` with no alias, T being the target's full dotted name,
\* a read of the expression T... next in the same scope, at line k, appends
\* exactly the record (T, T, k).
C1_PlainImportThenRead ==
    ( /\ IsRead
      /\ last.expr = modulename
      /\ prev.kind = "Import"
      /\ prev.names = <<alias(modulename, None)>>
      /\ ~prev.maps[1].ro )
    => Appended(<<modulename, modulename, last.line>>)

\* ------------------------------------------------------------ C5
\* C5: an import or import-from directly in a class body that would bind a
\* name to the target raises nothing: the write is dropped, the scope chain is
\* as it was and the walk goes on.
C5_ClassBodyImportDropped ==
    ( /\ last.kind \in {"Import", "ImportFrom"}
      /\ DOMAIN last.bound # {}
      /\ last.maps[1].ro )
    => (error = "none" /\ scopes = last.maps)

\* ------------------------------------------------------------ C6
\* C6: reaching a lambda raises nothing; the walk goes on after it with the
\* scope chain it had before it.
C6_LambdaLikeFunction ==
    last.kind = "Lambda" => (error = "none" /\ scopes = last.maps)

\* ------------------------------------------------------------ C8
\* C8: when a function, lambda or class body has been left, by walking it to
\* its end or by an error, the scope chain is the one that was there right
\* before the (outermost) body left was entered.
C8_BalancedPushPop ==
    last.left # <<>> => scopes = last.left[Len(last.left)].before

\* ------------------------------------------------------------ C2
\* a function body in progress that assigned or deleted the name read, the
\* name being bound to the target where the function was entered
AssignedIn(i) ==
    /\ stack[i].kind = "FunctionDef"
    /\ last.id \in stack[i].stored_here
    /\ chain_get(stack[i].before, last.id) # None

\* an import statement bound the name again after that assignment, in that
\* body or in a body in progress nested in it
ImportedSince(i) == \E j \in 1..i : last.id \in stack[j].rebound

\* a read right after the walk left a function body that assigned the name
\* resolves as it did where the function was entered
C2_OutsideUnaffected ==
    ( /\ IsRead
      /\ prev.kind = "return"
      /\ prev.left[1].kind = "FunctionDef"
      /\ last.id \in prev.left[1].stored_here
      /\ chain_get(prev.left[1].before, last.id) # None )
    => ( /\ scopes = prev.left[1].before
         /\ ResolvesAgainst(prev.left[1].before) )

\* C2 as claimed: no read of x in a function body, visited after an assignment
\* or deletion of x in that body, appends a record; and a read of x after the
\* function was left resolves as if the function had assigned nothing.
C2_ShadowContainment_AsClaimed ==
    /\ IsRead => \A i \in DOMAIN stack : AssignedIn(i) => NothingAppended
    /\ C2_OutsideUnaffected

\* C2 amended: the same, for reads before any import statement binds x again
\* after the assignment (in that body or in a body in progress nested in it).
C2_ShadowContainment ==
    /\ IsRead =>
          \A i \in DOMAIN stack :
              (AssignedIn(i) /\ ~ImportedSince(i)) => NothingAppended
    /\ C2_OutsideUnaffected

\* import foo.bar as fb / def f(): / fb = 5 / return fb / fb.attr: the read at
\* line 4 appended nothing, the one at line 5 gives the only record
C2_Witness ==
    /\ modulename = FOO_BAR
    /\ IsRead /\ last.id = FB /\ last.line = 5
    /\ prev.kind = "return"
    /\ prev.left[1].kind = "FunctionDef"
    /\ FB \in prev.left[1].masked
    /\ prev.left[1].before = <<[ro |-> FALSE, d |-> (FB :> FOO_BAR)]>>
    /\ stack = <<>>
    /\ used_at = << <<FOO_BAR, FB, 5>> >>

\* ------------------------------------------------------------ C3
\* C3: a store or del of a name directly in a class body changes no frame and
\* raises nothing, and a read of that name right after the class definition
\* appends the record of the binding that was visible where the class was
\* entered.
C3_ClassBodyNonLeakage ==
    /\ (IsWrite /\ stack # <<>> /\ stack[1].kind = "ClassDef") =>
           (scopes = last.maps /\ error = "none")
    /\ ( /\ IsRead
         /\ prev.kind = "return"
         /\ prev.left[1].kind = "ClassDef"
         /\ last.id \in prev.left[1].stored_here
         /\ chain_get(prev.left[1].before, last.id) # None )
       => Appended(<<chain_get(prev.left[1].before, last.id), last.id, last.line>>)

\* import foo.bar as fb / class C: / fb = None / fb.attr: (foo.bar, fb, 4)
C3_Witness ==
    /\ modulename = FOO_BAR
    /\ IsRead
    /\ prev.kind = "return"
    /\ prev.left[1].kind = "ClassDef"
    /\ FB \in prev.left[1].stored_here
    /\ used_at = << <<FOO_BAR, FB, 4>> >>

\* ------------------------------------------------------------ C4
\* the bindings of `from <parent package> import ...`: each imported name that
\* is the target's stem, under its local name, to the target's dotted name
ParentBindings(names) ==
    [l \in {local_name(names[i]) : i \in {k \in DOMAIN names : names[k].name = modulestem}}
        |-> modulename]

\* the statement's bindings are exactly `b`, and a mutable current frame holds
\* them afterwards, every other frame and key being as before
BindsExactly(b) ==
    /\ last.bound = b
    /\ ~last.maps[1].ro =>
          /\ error = "none"
          /\ Len(scopes) = Len(last.maps)
          /\ Tail(scopes) = Tail(last.maps)
          /\ scopes[1].ro = last.maps[1].ro
          /\ scopes[1].d = Bound(last.maps[1].d, b)

FromParentPackage ==
    /\ last.kind = "ImportFrom"
    /\ last.source = modulepackage
    /\ \E i \in DOMAIN last.names : last.names[i].name = modulestem

\* from . import sub / sub.value, target pkg.sub in package pkg
ScenarioB ==
    /\ modulename = PKG_SUB /\ package = PKG
    /\ prev.kind = "ImportFrom" /\ prev.line = 1
    /\ prev.level = 1 /\ prev.module = None
    /\ prev.names = <<alias(SUB, None)>>
    /\ IsRead /\ last.expr = SUB /\ last.line = 2

\* C4 as claimed: for every target, a dotless one with the empty parent
\* package included, an import-from whose source is the target's parent
\* package binds each imported name equal to the stem, and no other.
C4_ParentPackageRule_AsClaimed ==
    /\ FromParentPackage => BindsExactly(ParentBindings(last.names))
    /\ ScenarioB => used_at = << <<PKG_SUB, SUB, 2>> >>

\* C4 amended: the same for every target whose parent-package name is not
\* empty (a dotted target).
C4_ParentPackageRule ==
    /\ (FromParentPackage /\ modulepackage # EMPTY) =>
           BindsExactly(ParentBindings(last.names))
    /\ ScenarioB => used_at = << <<PKG_SUB, SUB, 2>> >>

C4_Witness ==
    /\ ScenarioB
    /\ prev.source = PKG
    /\ prev.bound = (SUB :> PKG_SUB)
    /\ scopes = <<[ro |-> FALSE, d |-> (SUB :> PKG_SUB)]>>
    /\ used_at = << <<PKG_SUB, SUB, 2>> >>

\* ------------------------------------------------------------ C9
\* the bindings of `from <target> import ...`: every imported name n, under
\* its local name, to '<target>.n' (a local name given twice keeps the later)
TargetBindings(names) ==
    [l \in {local_name(names[i]) : i \in DOMAIN names}
        |-> modulename \o <<DOT>> \o LastNamed(names, l).name]

\* C9: an import-from whose source is the target binds every imported name n,
\* under (alias or n), to 'T.n' in the innermost frame and nowhere else, and a
\* read of that local name next in that mutable scope, at line k, appends
\* ('T.n', alias or n, k).
C9_ImportFromTarget ==
    /\ (last.kind = "ImportFrom" /\ last.source = modulename) =>
           BindsExactly(TargetBindings(last.names))
    /\ ( /\ IsRead
         /\ prev.kind = "ImportFrom"
         /\ prev.source = modulename
         /\ ~prev.maps[1].ro
         /\ \E i \in DOMAIN prev.names : local_name(prev.names[i]) = last.id )
       => Appended(<<modulename \o <<DOT>> \o LastNamed(prev.names, last.id).name,
                     last.id, last.line>>)

\* def f(): / from foo.bar import baz, bar as fb / baz: (foo.bar.baz, baz, 3),
\* the module frame still empty
C9_Witness ==
    /\ modulename = FOO_BAR
    /\ IsRead /\ last.id = BAZ
    /\ prev.kind = "ImportFrom" /\ prev.source = FOO_BAR
    /\ Len(scopes) = 2
    /\ scopes[1].d = (BAZ :> (FOO_BAR \o <<DOT, "baz">>)) @@ (FB :> (FOO_BAR \o <<DOT, "bar">>))
    /\ scopes[2].d = EmptyDict
    /\ used_at = << <<FOO_BAR \o <<DOT, "baz">>, BAZ, 3>> >>

\* ------------------------------------------------------------ C10
\* a function body in progress with a parameter named as the name read, the
\* name being bound to the target where the function was entered
ParamOf(i) ==
    /\ stack[i].kind = "FunctionDef"
    /\ \E k \in DOMAIN stack[i].params : stack[i].params[k] = last.id
    /\ chain_get(stack[i].before, last.id) # None

\* entering a function writes nothing: the new frame is empty whatever the
\* parameters, the frames below are as before
C10_EntryWritesNothing ==
    last.kind = "FunctionDef" =>
        /\ scopes[1] = [ro |-> FALSE, d |-> EmptyDict]
        /\ Tail(scopes) = last.maps

\* C10 as claimed: a parameter does not mask; a read of x in the body of a
\* function with a parameter x appends the record of the outer origin unless an
\* assignment or deletion of x was visited earlier in that body.
C10_ParameterDoesNotMask_AsClaimed ==
    /\ C10_EntryWritesNothing
    /\ IsRead =>
          \A i \in DOMAIN stack :
              (ParamOf(i) /\ last.id \notin stack[i].stored_in) =>
                  Appended(<<chain_get(stack[i].before, last.id), last.id, last.line>>)

\* C10 amended: ... unless an assignment or deletion of x, or an import
\* statement binding x, was visited earlier in that body.
C10_ParameterDoesNotMask ==
    /\ C10_EntryWritesNothing
    /\ IsRead =>
          \A i \in DOMAIN stack :
              ( /\ ParamOf(i)
                /\ last.id \notin stack[i].stored_in
                /\ last.id \notin stack[i].bound_in ) =>
                  Appended(<<chain_get(stack[i].before, last.id), last.id, last.line>>)

\* import foo.bar as fb / def f(fb): / return fb: (foo.bar, fb, 3)
C10_Witness ==
    /\ IsRead /\ last.id = FB
    /\ prev.kind = "FunctionDef" /\ prev.params = <<FB>>
    /\ Len(stack) = 1 /\ ParamOf(1)
    /\ scopes[1].d = EmptyDict
    /\ used_at = << <<FOO_BAR, FB, 3>> >>

====
